---------------------------- MODULE Spec2Model ----------------------------
(***************************************************************************)
(* The metrics aggregation of the APS wallet dashboard: the two analyzers  *)
(* AgentPerformanceAnalyzerUltraFast (src/utils/Analyzer.py) and           *)
(* LargeFileAnalyzer (src/utils/large_file_analyzer.py).                   *)
(*                                                                         *)
(* A text cell is a string; NA is the missing cell.  A data frame is a     *)
(* record [isNone, cols, rows]: the set of its column labels and the       *)
(* sequence of its rows.  A row carries a field for every column the       *)
(* analyzers know; a field whose column is not in cols is never read.      *)
(***************************************************************************)
EXTENDS Integers, Sequences, FiniteSets, TLC

----------------------------------------------------------------------------
(* Bounds of the model. *)

\* Longest onboarding file, in rows.
MaxOnbRows == 2
\* Longest transaction file, in rows.
MaxTxRows == 2
\* Operations performed on one analyzer in a lifecycle run.
MaxOps == 4
\* Consecutive calls of calculate_all_metrics a run makes.
MaxCalls == 2
\* Loads of a lifecycle run.
MaxLoads == 2
\* Rows per chunk, at most.
MaxChunkSize == 2

----------------------------------------------------------------------------
(* Text: pandas' .str.upper(), .str.strip(), .str.contains().             *)

NA == "<NA>"

LowerAZ == "abcdefghijklmnopqrstuvwxyz"
UpperAZ == "ABCDEFGHIJKLMNOPQRSTUVWXYZ"
Digits == "0123456789"
\* The characters of the model's texts, in code point order.
Chars == " ,-./0123456789:<>ABCDEFGHIJKLMNOPQRSTUVWXYZ_abcdefghijklmnopqrstuvwxyz"

Chr(s, i) == SubSeq(s, i, i)

CharSet == {Chr(Chars, i) : i \in 1..Len(Chars)}

\* The code point order of the characters.
OrdOf == [c \in CharSet |-> CHOOSE i \in 1..Len(Chars) : Chr(Chars, i) = c]
Ord(c) == OrdOf[c]

\* str.upper() of one character.
UpperOf ==
    [c \in CharSet |->
        IF \E i \in 1..Len(LowerAZ) : Chr(LowerAZ, i) = c
        THEN Chr(UpperAZ, CHOOSE i \in 1..Len(LowerAZ) : Chr(LowerAZ, i) = c)
        ELSE c]
UpperChar(c) == UpperOf[c]

RECURSIVE UpperText(_)
UpperText(s) ==
    IF Len(s) = 0 THEN s ELSE UpperChar(Chr(s, 1)) \o UpperText(SubSeq(s, 2, Len(s)))

RECURSIVE LStrip(_)
LStrip(s) ==
    IF Len(s) > 0 /\ Chr(s, 1) = " " THEN LStrip(SubSeq(s, 2, Len(s))) ELSE s

RECURSIVE RStrip(_)
RStrip(s) ==
    IF Len(s) > 0 /\ Chr(s, Len(s)) = " " THEN RStrip(SubSeq(s, 1, Len(s) - 1)) ELSE s

\* Series.str.upper(): a missing cell stays missing.
StrUpper(v) == IF v = NA THEN NA ELSE UpperText(v)

\* Series.str.strip()
StrStrip(v) == IF v = NA THEN NA ELSE LStrip(RStrip(v))

\* k occurs in s as a substring.
Contains(s, k) ==
    \E i \in 1..(Len(s) + 1 - Len(k)) : SubSeq(s, i, i + Len(k) - 1) = k

\* Series.str.contains(k, na=False, case=False)
StrContains(v, k) == v # NA /\ Contains(UpperText(v), UpperText(k))

\* s sorts strictly before t (Python's order of str).
RECURSIVE StrLess(_, _)
StrLess(s, t) ==
    IF Len(t) = 0 THEN FALSE
    ELSE IF Len(s) = 0 THEN TRUE
    ELSE IF Chr(s, 1) = Chr(t, 1)
         THEN StrLess(SubSeq(s, 2, Len(s)), SubSeq(t, 2, Len(t)))
         ELSE Ord(Chr(s, 1)) < Ord(Chr(t, 1))

IsDigit(c) == \E i \in 1..Len(Digits) : Chr(Digits, i) = c
DigitVal(c) == (CHOOSE i \in 1..Len(Digits) : Chr(Digits, i) = c) - 1
IsDigits(s) == Len(s) > 0 /\ \A i \in 1..Len(s) : IsDigit(Chr(s, i))

RECURSIVE ToNat(_)
ToNat(s) ==
    IF Len(s) = 0 THEN 0
    ELSE 10 * ToNat(SubSeq(s, 1, Len(s) - 1)) + DigitVal(Chr(s, Len(s)))

RECURSIVE NatToStr(_)
NatToStr(n) ==
    IF n < 10 THEN Chr(Digits, n + 1)
    ELSE NatToStr(n \div 10) \o Chr(Digits, (n % 10) + 1)

----------------------------------------------------------------------------
(* Timestamps and numbers: pd.to_datetime(errors='coerce') and             *)
(* pd.to_numeric(errors='coerce').  A timestamp keeps the year and the     *)
(* month, the two parts the analyzers read.                                *)

NaT == [ok |-> FALSE, year |-> 0, month |-> 0]
Stamp(y, m) == [ok |-> TRUE, year |-> y, month |-> m]

\* "YYYY-MM-DD", with or without a time of day after it.
IsYMD(s) ==
    /\ Len(s) >= 10
    /\ IsDigits(SubSeq(s, 1, 4)) /\ Chr(s, 5) = "-"
    /\ IsDigits(SubSeq(s, 6, 7)) /\ Chr(s, 8) = "-"
    /\ IsDigits(SubSeq(s, 9, 10))
    /\ ToNat(SubSeq(s, 6, 7)) \in 1..12
    /\ ToNat(SubSeq(s, 9, 10)) \in 1..31

\* "DD/MM/YYYY HH:MM", the format '%d/%m/%Y %H:%M'.
IsDMY(s) ==
    /\ Len(s) = 16
    /\ IsDigits(SubSeq(s, 1, 2)) /\ Chr(s, 3) = "/"
    /\ IsDigits(SubSeq(s, 4, 5)) /\ Chr(s, 6) = "/"
    /\ IsDigits(SubSeq(s, 7, 10)) /\ Chr(s, 11) = " "
    /\ IsDigits(SubSeq(s, 12, 13)) /\ Chr(s, 14) = ":"
    /\ IsDigits(SubSeq(s, 15, 16))
    /\ ToNat(SubSeq(s, 1, 2)) \in 1..31
    /\ ToNat(SubSeq(s, 4, 5)) \in 1..12
    /\ ToNat(SubSeq(s, 12, 13)) \in 0..23
    /\ ToNat(SubSeq(s, 15, 16)) \in 0..59

\* pd.to_datetime(v, format='%d/%m/%Y %H:%M', errors='coerce')
ToDatetimeDMY(v) ==
    IF v # NA /\ IsDMY(v)
    THEN Stamp(ToNat(SubSeq(v, 7, 10)), ToNat(SubSeq(v, 4, 5)))
    ELSE NaT

\* pd.to_datetime(v, errors='coerce'): an ISO date, or a date with slashes
\* read month first unless its first field cannot be a month.
ToDatetime(v) ==
    IF v = NA THEN NaT
    ELSE IF IsYMD(v) THEN Stamp(ToNat(SubSeq(v, 1, 4)), ToNat(SubSeq(v, 6, 7)))
    ELSE IF /\ Len(v) = 16
            /\ IsDMY(SubSeq(v, 4, 5) \o "/" \o SubSeq(v, 1, 2) \o SubSeq(v, 6, Len(v)))
         THEN Stamp(ToNat(SubSeq(v, 7, 10)), ToNat(SubSeq(v, 1, 2)))
    ELSE IF IsDMY(v) THEN Stamp(ToNat(SubSeq(v, 7, 10)), ToNat(SubSeq(v, 4, 5)))
    ELSE NaT

\* An amount cell: a text, a number, the missing number (NaN), or the
\* missing cell of a column of dtype 'string' (pd.NA).
Txt(s) == [k |-> "text", s |-> s, n |-> 0]
Num(n) == [k |-> "num", s |-> "", n |-> n]
NaN == [k |-> "nan", s |-> "", n |-> 0]
NAText == [k |-> "na", s |-> "", n |-> 0]

IsMissing(c) == c.k = "nan" \/ c.k = "na"

\* pd.to_numeric(c, errors='coerce')
ToNumeric(c) ==
    IF c.k = "text"
    THEN IF IsDigits(StrStrip(c.s)) THEN Num(ToNat(StrStrip(c.s))) ELSE NaN
    ELSE IF c.k = "na" THEN NaN
    ELSE c

\* The number a cell adds to Series.sum(): missing numbers are skipped.
NumOf(c) == IF c.k = "num" THEN c.n ELSE 0

RECURSIVE SumTo(_, _)
SumTo(f, n) == IF n = 0 THEN 0 ELSE f[n] + SumTo(f, n - 1)

\* The sum of a sequence of numbers.
SumSeq(f) == SumTo(f, Len(f))

Max(a, b) == IF a >= b THEN a ELSE b

----------------------------------------------------------------------------
(* Data frames.                                                            *)

NoneDF == [isNone |-> TRUE, cols |-> {}, rows |-> <<>>]
\* pd.DataFrame()
EmptyDF == [isNone |-> FALSE, cols |-> {}, rows |-> <<>>]
Frame(cols, rows) == [isNone |-> FALSE, cols |-> cols, rows |-> rows]

\* DataFrame.empty
IsEmpty(df) == df.cols = {} \/ Len(df.rows) = 0

\* The cells pandas' read_csv reads as missing.
NaValues == {"", "N/A", "NA", "NaN", "nan", "null", "NULL", "None", "n/a", "#N/A", NA}

ReadCell(s) == IF s \in NaValues THEN NA ELSE s

OnbCols == {"Account ID", "Entity", "Status", "Registration Date"}

NeededCols ==
    {"User Identifier", "Parent User Identifier", "Entity Name",
     "Service Name", "Transaction Type", "Product Name",
     "Created At", "Transaction Amount", "Transaction Status"}

TextCols == <<"Entity Name", "Service Name", "Transaction Type", "Product Name">>
DepositCols == <<"Service Name", "Transaction Type", "Product Name">>
DateCols == {"Year", "Month", "Day", "Hour"}

\* The text cell of a transaction row under one of the text columns.
Label(row, col) ==
    CASE col = "Entity Name" -> row.ename
      [] col = "Service Name" -> row.service
      [] col = "Transaction Type" -> row.ttype
      [] col = "Product Name" -> row.product

\* AnalysisConfig
Config(y, n, kw) ==
    [year |-> y, min_deposits_for_active |-> n, deposit_keywords |-> kw]

DefaultKeywords == <<"DEPOSIT", "FUNDING", "LOAD", "CREDIT">>

\* The entries head(10) keeps.
TopLimit == 10

----------------------------------------------------------------------------
(* The files and configurations the runs draw from.                        *)

File(cols, rows) == [cols |-> cols, rows |-> rows]

OnbRow(id, entity, status, reg) ==
    [id |-> id, entity |-> entity, status |-> status, reg |-> reg]

TxRow(user, parent, ename, service, ttype, product, created, amount, tstatus) ==
    [user |-> user, parent |-> parent, ename |-> ename, service |-> service,
     ttype |-> ttype, product |-> product, created |-> created,
     amount |-> amount, tstatus |-> tstatus]

\* The sequences over S of length at most n.
SeqsUpTo(S, n) == UNION {[1..k -> S] : k \in 0..n}

\* An active agent, a teller written in lower case with no status, a
\* teller of another kind registered with an ISO date, a terminated agent
\* with the first row's identifier.
AgentRow == OnbRow("E1", "AGENT", "ACTIVE", "15/01/2025 10:30")
TellerRow == OnbRow("E2", "agent teller ", "", "20/03/2024 09:00")
SubTellerRow == OnbRow("E3", "SUB-TELLER", "VERIFIED", "2025-02-01")
TerminatedRow == OnbRow("E1", "AGENT", "Terminated", "10/02/2025 08:00")

OnbRows == {AgentRow, TellerRow, SubTellerRow, TerminatedRow}

\* The roster of three entities: an active agent, an active teller, a
\* terminated agent.
RosterFile ==
    [cols |-> {"Account ID", "Entity", "Status", "Registration Date"},
     rows |-> <<OnbRow("E1", "AGENT", "ACTIVE", "15/01/2025 10:30"),
                OnbRow("E2", "AGENT TELLER", "ACTIVE", "16/01/2025 10:30"),
                OnbRow("E3", "AGENT", "TERMINATED", "17/01/2025 10:30")>>]

\* Two rows of one agent identifier: one without a status, one with a
\* status no list names.
OpenStatusFile ==
    [cols |-> {"Account ID", "Entity", "Status", "Registration Date"},
     rows |-> <<OnbRow("E4", "AGENT", "", "15/01/2025 10:30"),
                OnbRow("E4", "Agent", " on hold", "16/01/2025 10:30")>>]

\* A deposit of the year 2025; a deposit of 2024 named in the type column; a
\* deposit with an unreadable date and amount; two rows that are no deposits.
DepositRow ==
    TxRow("U1", "P1", "SHOP", "Deposit", "CASH IN", "WALLET",
          "2025-01-15 10:30:00", "100", "SUCCESS")
OldDepositRow ==
    TxRow("U1", "P2", "SHOP", "TRANSFER", "Wallet Funding", "WALLET",
          "2024-03-10 12:00:00", "50", "success")
UndatedDepositRow ==
    TxRow("U2", "", "SHOP", "TRANSFER", "CASH IN", "Credit Line",
          "not a date", "1,000", "DECLINED")
WithdrawalRow ==
    TxRow("U2", "P1", "SHOP", "WITHDRAWAL", "CASH OUT", "WALLET",
          "2025-02-03 09:15:00", "70", "FAILED")
PendingRow ==
    TxRow("U3", "", "", "TRANSFER", "P2P", "WALLET",
          "2025-02-20 18:00:00", "N/A", "PENDING")

TxRows == {DepositRow, OldDepositRow, UndatedDepositRow, WithdrawalRow, PendingRow}

\* A deposit of 2025 named in the product column alone, its service name
\* missing, of the same amount as DepositRow's.
UnlabelledDepositRow ==
    TxRow("U2", "P2", "SHOP", "", "CASH IN", "Credit Line",
          "2025-01-20 08:00:00", "100", "COMPLETED")

\* Two deposits with unreadable dates and readable amounts.
UndatedSmallRow ==
    TxRow("U1", "P1", "SHOP", "Deposit", "CASH IN", "WALLET",
          "pending", "50", "SUCCESS")
UndatedLargeRow ==
    TxRow("U3", "P1", "SHOP", "Deposit", "CASH IN", "WALLET",
          "pending", "100", "SUCCESS")

\* One deposit of January 2025 for each of more users than the ranking
\* keeps, the last user first: U11 and U10 deposit 5 each, U09 .. U01
\* deposit 90 .. 10.
ManyUsersRows ==
    [i \in 1..(TopLimit + 1) |->
        LET k == TopLimit + 2 - i
        IN TxRow("U" \o (IF k < 10 THEN "0" ELSE "") \o NatToStr(k),
                 "P1", "SHOP", "Deposit", "CASH IN", "WALLET",
                 "2025-01-15 10:30:00",
                 IF k >= TopLimit THEN "5" ELSE NatToStr(10 * k),
                 "SUCCESS")]

\* The onboarding files of a single run: every sequence of rows, and files
\* that lack a column.
OnbFiles ==
    {File(OnbCols, rows) : rows \in SeqsUpTo(OnbRows, MaxOnbRows)}
      \cup {File(OnbCols \ {c}, <<AgentRow>>) : c \in {"Status", "Account ID"}}
      \cup {RosterFile, OpenStatusFile}

\* The transaction files of a single run.
TxFiles ==
    {File(NeededCols, rows) : rows \in SeqsUpTo(TxRows, MaxTxRows)}
      \cup {File(NeededCols \ {c}, <<UndatedDepositRow>>) :
              c \in {"Created At", "Transaction Amount", "Parent User Identifier"}}
      \cup {File(NeededCols, rows) :
              rows \in {<<UnlabelledDepositRow>>,
                        <<UnlabelledDepositRow, DepositRow>>,
                        <<DepositRow, UnlabelledDepositRow>>,
                        <<UndatedSmallRow, UndatedLargeRow>>,
                        ManyUsersRows}}

\* The years and thresholds the dashboard's controls select.
Years == {2024, 2025}
Thresholds == {1, 2}
Configs == {Config(y, n, DefaultKeywords) : y \in Years, n \in Thresholds}

\* The files and configurations of a lifecycle run.
LifeOnbFiles == {File(OnbCols, <<AgentRow, TellerRow>>), File(OnbCols, <<SubTellerRow>>)}
LifeTxFiles ==
    {File(NeededCols, <<WithdrawalRow>>),
     File(NeededCols, <<WithdrawalRow, UndatedDepositRow>>),
     File(NeededCols, <<OldDepositRow>>)}
LifeConfigs ==
    {Config(y, n, kw) : y \in Years, n \in Thresholds,
                        kw \in {DefaultKeywords, <<"WITHDRAW">>}}

\* Every file and configuration of the runs.
AllOnbFiles == OnbFiles \cup LifeOnbFiles
AllTxFiles == TxFiles \cup LifeTxFiles
AllConfigs == Configs \cup LifeConfigs

----------------------------------------------------------------------------
(* AgentPerformanceAnalyzerUltraFast: loading.                             *)

\* The cleaning of one onboarding row.
CleanOnbRow(r) ==
    [id |-> StrStrip(ReadCell(r.id)),
     entity |-> StrStrip(StrUpper(ReadCell(r.entity))),
     status |-> StrStrip(StrUpper(ReadCell(r.status))),
     reg |-> ToDatetimeDMY(ReadCell(r.reg))]

\* _load_onboarding_data: the four columns, cleaned; an empty frame when
\* one of them is missing from the file.
LoadOnboardingData(file) ==
    IF ~(OnbCols \subseteq file.cols) THEN EmptyDF
    ELSE Frame(OnbCols, [i \in DOMAIN file.rows |-> CleanOnbRow(file.rows[i])])

\* The cleaning of one transaction row of a file with the columns cols; i is
\* the row's index label.
CleanTxRow(r, cols, i) ==
    LET has(c) == c \in cols
        created == IF has("Created At") THEN ToDatetime(ReadCell(r.created)) ELSE NaT
        text(c, v) == IF has(c) THEN StrStrip(StrUpper(ReadCell(v))) ELSE NA
        plain(c, v) == IF has(c) THEN ReadCell(v) ELSE NA
    IN [idx |-> i,
        user |-> plain("User Identifier", r.user),
        parent |-> plain("Parent User Identifier", r.parent),
        ename |-> text("Entity Name", r.ename),
        service |-> text("Service Name", r.service),
        ttype |-> text("Transaction Type", r.ttype),
        product |-> text("Product Name", r.product),
        created |-> created,
        Year |-> created.year,
        Month |-> created.month,
        amount |-> IF has("Transaction Amount") /\ ReadCell(r.amount) # NA
                   THEN Txt(r.amount)
                   ELSE IF cols = NeededCols THEN NAText ELSE NaN,
        tstatus |-> plain("Transaction Status", r.tstatus)]

\* The frame df of _load_transaction_data before it is split: the needed
\* columns the file has, dates parsed, text columns cleaned.
CleanTransactions(file) ==
    LET cols == file.cols \cap NeededCols
    IN Frame(IF "Created At" \in cols THEN cols \cup DateCols ELSE cols,
             [i \in DOMAIN file.rows |-> CleanTxRow(file.rows[i], cols, i - 1)])

\* deposit_mask: some keyword occurs in some label column the frame has.
IsDeposit(row, cols, keywords) ==
    \E k \in DOMAIN keywords : \E c \in DOMAIN DepositCols :
        /\ DepositCols[c] \in cols
        /\ StrContains(Label(row, DepositCols[c]), keywords[k])

\* The deposit rows of a cleaned frame.
DepositsOf(df, keywords) ==
    LET dep(r) == IsDeposit(r, df.cols, keywords)
    IN IF ~IsEmpty(df) /\ \E i \in DOMAIN df.rows : dep(df.rows[i])
       THEN Frame(df.cols, SelectSeq(df.rows, dep))
       ELSE EmptyDF

\* The rows of the configured year.
CurrentYearOf(df, year) ==
    LET inYear(r) == r.created.ok /\ r.Year = year
    IN IF "Year" \in df.cols THEN Frame(df.cols, SelectSeq(df.rows, inYear)) ELSE EmptyDF

\* _load_transaction_data: (current_year_df, deposit_df)
LoadTransactionData(file, config) ==
    LET df == CleanTransactions(file)
    IN <<CurrentYearOf(df, config.year), DepositsOf(df, config.deposit_keywords)>>

\* The two loaders on every file of the runs, under every configuration.
OnboardingLoads == [f \in AllOnbFiles |-> LoadOnboardingData(f)]
TransactionLoads == [f \in AllTxFiles, c \in AllConfigs |-> LoadTransactionData(f, c)]

\* The frames a caller of set_data holds for two files: the columns the
\* files have, cleaned as the loaders clean them, every year kept.
CallerOnboardingFrame(file) ==
    Frame(file.cols \cap OnbCols, [i \in DOMAIN file.rows |-> CleanOnbRow(file.rows[i])])
CallerTransactionFrame(file) == CleanTransactions(file)
CallerOnboardingFrames == [f \in AllOnbFiles |-> CallerOnboardingFrame(f)]
CallerTransactionFrames == [f \in AllTxFiles |-> CallerTransactionFrame(f)]

----------------------------------------------------------------------------
(* Aggregation helpers shared by the two analyzers.                        *)

\* The number of calendar months of a monthly series.
Months == 1..12

\* A series that starts from the numbers of the months: {m: m for m in
\* range(1, 13)}
MonthNumbers == [m \in Months |-> m]

ZeroSeries == [m \in Months |-> 0]

\* status not in {'TERMINATED', 'BLOCKED', 'SUSPENDED', 'INACTIVE'}
Terminated == {"TERMINATED", "BLOCKED", "SUSPENDED", "INACTIVE"}

\* The mask of a classification that knows the status ACTIVE alone.
ActiveMaskClosed(r) == r.status = "ACTIVE"

ActiveMask(r) == r.status \notin Terminated

\* entity_counts.get('AGENT', 0) counts the rows whose Entity is this text.
IsAgent(e) == e = "AGENT"

\* entity_counts.get('AGENT TELLER', 0)
IsTeller(e) == e = "AGENT TELLER"

\* status_counts.get('SUCCESS', 0) + status_counts.get('COMPLETED', 0)
IsSuccess(st) == st = "SUCCESS" \/ st = "COMPLETED"

\* status_counts.get('FAILED', 0) + status_counts.get('REJECTED', 0)
IsFailed(st) == st = "FAILED" \/ st = "REJECTED"

\* The strings of a finite set in ascending order.
RECURSIVE SortStrings(_)
SortStrings(S) ==
    IF S = {} THEN <<>>
    ELSE LET m == CHOOSE a \in S : \A b \in S : a = b \/ StrLess(a, b)
         IN <<m>> \o SortStrings(S \ {m})

\* The concatenation of a sequence of strings.
RECURSIVE Concat(_)
Concat(ss) == IF Len(ss) = 0 THEN "" ELSE Head(ss) \o Concat(Tail(ss))

\* Order of two totals of one column: numbers by value, texts as strings.
TotalLess(a, b) ==
    IF a.k = "text" /\ b.k = "text" THEN StrLess(a.s, b.s) ELSE NumOf(a) < NumOf(b)

\* sort_values is called without kind=, so it sorts with quicksort, which
\* pandas documents as not stable: where the build's sort leaves rows of
\* equal totals is not fixed by the code.  tieOrder is what the build of a
\* run does with them: "kept" in the order of the frame it sorts, or
\* "reversed".
VARIABLE tieOrder

\* sort_values('Total_Amount', ascending=False): the larger total first, equal
\* totals as the build leaves them.
SortDescending(g) ==
    LET before(i, j) ==
            \/ TotalLess(g[j].Total_Amount, g[i].Total_Amount)
            \/ /\ g[j].Total_Amount = g[i].Total_Amount
               /\ IF tieOrder = "kept" THEN i < j ELSE j < i
        rank(i) == 1 + Cardinality({j \in DOMAIN g : j # i /\ before(j, i)})
    IN [p \in DOMAIN g |-> g[CHOOSE i \in DOMAIN g : rank(i) = p]]

\* head(n)
HeadN(q, n) == SubSeq(q, 1, IF Len(q) < n THEN Len(q) ELSE n)

\* The distinct non-missing values of User Identifier and of Parent User
\* Identifier.
DistinctUsers(rows) == {rows[i].user : i \in DOMAIN rows} \ {NA}
DistinctParents(rows) == {rows[i].parent : i \in DOMAIN rows} \ {NA}

\* value_counts() of User Identifier: the rows of user u.
DepositCount(rows, u) == Len(SelectSeq(rows, LAMBDA r : r.user = u))

\* The users with a deposit at all, whatever the threshold.
ActiveUsersAnyCount(rows, n) == Cardinality(DistinctUsers(rows))

\* len(counts[counts >= n]) and len(counts[counts < n])
ActiveUsers(rows, n) ==
    Cardinality({u \in DistinctUsers(rows) : DepositCount(rows, u) >= n})
InactiveUsers(rows, n) ==
    Cardinality({u \in DistinctUsers(rows) : DepositCount(rows, u) < n})

\* The counts keyed by the months that have rows, as
\* df['Month'].value_counts().to_dict() gives them.
MonthlyCountsOccurring(rows) ==
    [m \in {k \in 1..12 : \E i \in DOMAIN rows : rows[i].created.ok /\ rows[i].Month = k} |->
        Len(SelectSeq(rows, LAMBDA r : r.created.ok /\ r.Month = m))]

\* len(df[df['Month'] == m]) for every month.
MonthlyCounts(rows) ==
    [m \in Months |-> Len(SelectSeq(rows, LAMBDA r : r.created.ok /\ r.Month = m))]

\* The rows of month m.
MonthRows(rows, m) == SelectSeq(rows, LAMBDA r : r.created.ok /\ r.Month = m)

\* The sum of a float column's cells.
SumNumbers(cells) == Num(SumSeq([i \in DOMAIN cells |-> NumOf(cells[i])]))

\* The sum of a string column's cells: their concatenation, "0" for none.
SumTexts(cells) ==
    IF Len(cells) = 0 THEN Txt("0")
    ELSE Txt(Concat([i \in DOMAIN cells |-> cells[i].s]))

\* groupby('User Identifier').agg(['sum', 'count']) of Transaction Amount,
\* one entry per user in the order of the group keys; the non-missing amounts
\* of a group are added as numbers when the column is numeric, as strings
\* otherwise.
GroupDeposits(rows, numeric) ==
    LET users == SortStrings(DistinctUsers(rows))
        cells(u) == SelectSeq([i \in DOMAIN rows |-> rows[i]],
                              LAMBDA r : r.user = u /\ ~IsMissing(r.amount))
    IN [i \in DOMAIN users |->
          [user |-> users[i],
           Total_Amount |->
               LET amounts == [j \in DOMAIN cells(users[i]) |-> cells(users[i])[j].amount]
               IN IF numeric THEN SumNumbers(amounts) ELSE SumTexts(amounts),
           Transaction_Count |-> Len(cells(users[i]))]]

\* The ranking: groups sorted by total, the first ten.
TopAgents(rows, numeric) == HeadN(SortDescending(GroupDeposits(rows, numeric)), TopLimit)

----------------------------------------------------------------------------
(* AgentPerformanceAnalyzerUltraFast: calculate_all_metrics.               *)

\* The outcome of a call: a returned record, or a raised exception.
Returned(rec) == [kind |-> "record", rec |-> rec, exc |-> ""]
Raised(e) == [kind |-> "raise", rec |-> <<>>, exc |-> e]
NoCall == [kind |-> "none", rec |-> <<>>, exc |-> ""]

\* results, as calculate_all_metrics initialises it.
DefaultResults(year) ==
    [year |-> year,
     total_active_agents |-> 0,
     total_active_tellers |-> 0,
     agents_with_tellers |-> 0,
     agents_without_tellers |-> 0,
     onboarded_total |-> 0,
     onboarded_agents |-> 0,
     onboarded_tellers |-> 0,
     active_users_overall |-> 0,
     inactive_users_overall |-> 0,
     monthly_active_users |-> ZeroSeries,
     monthly_deposits |-> ZeroSeries,
     avg_transaction_time_minutes |-> 0,
     transaction_volume |-> 0,
     successful_transactions |-> 0,
     failed_transactions |-> 0,
     agent_hierarchy |-> <<>>,
     top_performing_agents |-> <<>>,
     performance_metrics |-> <<>>]

\* A rendered timestamp, float and amount cell, as str(DataFrame) prints them.
RenderStamp(t) ==
    IF t.ok
    THEN NatToStr(t.year) \o "-" \o (IF t.month < 10 THEN "0" ELSE "") \o NatToStr(t.month)
    ELSE "NaT"
RenderFloat(ok, n) == IF ok THEN NatToStr(n) \o ".0" ELSE "NaN"
RenderAmount(c) ==
    CASE c.k = "text" -> c.s
      [] c.k = "num" -> RenderFloat(TRUE, c.n)
      [] c.k = "nan" -> "NaN"
      [] c.k = "na" -> NA

\* str(onboarding_df) and str(transaction_df): the column labels and the
\* printed cells of every row (frames below pandas' display limits print
\* whole).
RenderOnboarding(df) ==
    IF df.isNone THEN <<"None">>
    ELSE <<df.cols, [i \in DOMAIN df.rows |->
             LET r == df.rows[i]
             IN <<r.id, r.entity, r.status, RenderStamp(r.reg)>>]>>

RenderTransactions(df) ==
    IF df.isNone THEN <<"None">>
    ELSE <<df.cols, [i \in DOMAIN df.rows |->
             LET r == df.rows[i]
             IN <<NatToStr(r.idx), r.user, r.parent, r.ename, r.service,
                  r.ttype, r.product, RenderStamp(r.created),
                  RenderFloat(r.created.ok, r.Year),
                  RenderFloat(r.created.ok, r.Month),
                  RenderAmount(r.amount), r.tstatus>>]>>

\* cache_key: the two rendered frames, and nothing else.
CacheKey(u) ==
    <<RenderOnboarding(u.onboarding_df), RenderTransactions(u.transaction_df)>>

\* The first missing column _calculate_agent_metrics subscripts, "" for none.
AgentMetricsError(onb) ==
    IF "Status" \notin onb.cols THEN "KeyError: Status"
    ELSE IF "Entity" \notin onb.cols THEN "KeyError: Entity"
    ELSE IF "Registration Date" \notin onb.cols THEN "KeyError: Registration Date"
    ELSE ""

\* The mask without the year: the active rows that have a registration date.
OnboardedMaskAnyYear(r, year) == r.reg.ok /\ ActiveMask(r)

\* mask_2025 = (Registration Date.dt.year == self.config.year) & active_mask
OnboardedMask(r, year) == r.reg.ok /\ r.reg.year = year /\ ActiveMask(r)

\* _calculate_agent_metrics
AgentMetrics(onb, year) ==
    LET active(r) == ActiveMask(r)
        onboarded(r) == OnboardedMask(r, year)
    IN [total_active_agents |->
            Len(SelectSeq(onb.rows, LAMBDA r : active(r) /\ IsAgent(r.entity))),
        total_active_tellers |->
            Len(SelectSeq(onb.rows, LAMBDA r : active(r) /\ IsTeller(r.entity))),
        onboarded_total |-> Len(SelectSeq(onb.rows, onboarded)),
        onboarded_agents |->
            Len(SelectSeq(onb.rows, LAMBDA r : onboarded(r) /\ IsAgent(r.entity))),
        onboarded_tellers |->
            Len(SelectSeq(onb.rows, LAMBDA r : onboarded(r) /\ IsTeller(r.entity)))]

\* transaction_df after _calculate_transaction_metrics: the amount column
\* coerced to numbers in place, when the frame has rows and that column.
CoerceAmounts(df) ==
    IF ~df.isNone /\ ~IsEmpty(df) /\ "Transaction Amount" \in df.cols
    THEN Frame(df.cols,
               [i \in DOMAIN df.rows |-> [df.rows[i] EXCEPT !.amount = ToNumeric(@)]])
    ELSE df

\* The deposit subset the metrics read: hasattr(self, 'deposit_df') and not
\* self.deposit_df.empty
HasDeposits(u) == u.has_deposit_df /\ ~IsEmpty(u.deposit_df)

\* The missing column _calculate_transaction_metrics subscripts, "" for none.
TransactionMetricsError(u) ==
    IF /\ ~IsEmpty(u.transaction_df)
       /\ HasDeposits(u)
       /\ "Month" \notin u.deposit_df.cols
    THEN "KeyError: Month"
    ELSE ""

\* _calculate_transaction_metrics
TransactionMetrics(u) ==
    LET tx == CoerceAmounts(u.transaction_df)
    IN IF IsEmpty(tx)
       THEN [transaction_volume |-> 0,
             successful_transactions |-> 0,
             failed_transactions |-> 0,
             monthly_deposits |-> ZeroSeries]
       ELSE [transaction_volume |->
                 IF "Transaction Amount" \in tx.cols
                 THEN SumSeq([i \in DOMAIN tx.rows |-> NumOf(tx.rows[i].amount)])
                 ELSE 0,
             successful_transactions |->
                 IF "Transaction Status" \in tx.cols
                 THEN Len(SelectSeq(tx.rows, LAMBDA r : IsSuccess(r.tstatus)))
                 ELSE 0,
             failed_transactions |->
                 IF "Transaction Status" \in tx.cols
                 THEN Len(SelectSeq(tx.rows, LAMBDA r : IsFailed(r.tstatus)))
                 ELSE 0,
             monthly_deposits |->
                 IF HasDeposits(u) THEN MonthlyCounts(u.deposit_df.rows)
                 ELSE ZeroSeries]

\* What _calculate_performance_metrics raises, "" for nothing: a column it
\* subscripts is missing, or a month has deposits and the count is stored
\* under metrics['monthly_active_users'], a key metrics does not have.
PerformanceMetricsError(u) ==
    LET dep == u.deposit_df
    IN IF ~HasDeposits(u) THEN ""
       ELSE IF "Parent User Identifier" \notin dep.cols
            THEN "KeyError: Parent User Identifier"
       ELSE IF "Account ID" \notin u.onboarding_df.cols THEN "KeyError: Account ID"
       ELSE IF "User Identifier" \notin dep.cols THEN "KeyError: User Identifier"
       ELSE IF "Month" \notin dep.cols THEN "KeyError: Month"
       ELSE IF \E m \in Months : Len(MonthRows(dep.rows, m)) > 0
            THEN "KeyError: monthly_active_users"
       ELSE ""

\* len(active_agents): the distinct Account IDs of the active AGENT rows.
ActiveAgentIds(onb) ==
    {onb.rows[i].id : i \in {j \in DOMAIN onb.rows :
        IsAgent(onb.rows[j].entity) /\ ActiveMask(onb.rows[j])}}

\* The difference of the two counts without the floor.
WithoutTellersUnfloored(agents, withTellers) == agents - withTellers

\* agents_without_tellers = max(0, len(active_agents) - agents_with_tellers)
WithoutTellers(agents, withTellers) == Max(0, agents - withTellers)

\* _calculate_performance_metrics
PerformanceMetrics(u) ==
    LET dep == u.deposit_df
        base == [performance_metrics |-> <<>>,
                 top_performing_agents |-> <<>>,
                 agent_hierarchy |-> <<>>]
        withTellers == Cardinality(DistinctParents(dep.rows))
        n == u.config.min_deposits_for_active
    IN IF ~HasDeposits(u) THEN base
       ELSE [agents_with_tellers |-> withTellers,
             agents_without_tellers |->
                 WithoutTellers(Cardinality(ActiveAgentIds(u.onboarding_df)), withTellers),
             active_users_overall |-> ActiveUsers(dep.rows, n),
             inactive_users_overall |-> InactiveUsers(dep.rows, n),
             top_performing_agents |->
                 IF "Transaction Amount" \in dep.cols
                 THEN TopAgents(dep.rows, FALSE)
                 ELSE <<>>]
            @@ base

\* The first exception of the three calculations, "" for none.
MetricsError(u) ==
    IF AgentMetricsError(u.onboarding_df) # "" THEN AgentMetricsError(u.onboarding_df)
    ELSE IF TransactionMetricsError(u) # "" THEN TransactionMetricsError(u)
    ELSE PerformanceMetricsError(u)

\* The record the three calculations give: results.update(...) of each.
ComputeResults(u) ==
    PerformanceMetrics(u)
        @@ TransactionMetrics(u)
        @@ AgentMetrics(u.onboarding_df, u.config.year)
        @@ DefaultResults(u.config.year)

\* _processed_data after a computed record is stored under the key.
Store(cache, key, rec) == (key :> rec) @@ cache

\* calculate_all_metrics: <<outcome, analyzer after the call>>.  A cached
\* record is returned as it is; without both frames the defaults are
\* returned and not stored; an exception leaves the amounts coerced (the
\* transaction metrics ran) unless the agent metrics raised first.
CalculateAllMetrics(u) ==
    LET key == CacheKey(u)
        coerced == [u EXCEPT !.transaction_df = CoerceAmounts(@)]
        err == MetricsError(u)
        rec == ComputeResults(u)
    IN IF key \in DOMAIN u.processed_data
       THEN <<Returned(u.processed_data[key]), u>>
       ELSE IF u.onboarding_df.isNone \/ u.transaction_df.isNone
       THEN <<Returned(DefaultResults(u.config.year)), u>>
       ELSE IF AgentMetricsError(u.onboarding_df) # ""
       THEN <<Raised(err), u>>
       ELSE IF err # ""
       THEN <<Raised(err), coerced>>
       ELSE <<Returned(rec), [coerced EXCEPT !.processed_data = Store(@, key, rec)]>>

\* AgentPerformanceAnalyzerUltraFast(config=config)
NewAnalyzer(config) ==
    [onboarding_df |-> NoneDF,
     transaction_df |-> NoneDF,
     has_deposit_df |-> FALSE,
     deposit_df |-> EmptyDF,
     config |-> config,
     processed_data |-> <<>>]

\* set_data
SetDataOn(u, onb, tx) == [u EXCEPT !.onboarding_df = onb, !.transaction_df = tx]

\* load_and_preprocess_data; hasOnb and hasTx say which file names are given.
LoadAndPreprocess(u, hasOnb, onbFile, hasTx, txFile) ==
    LET loaded == TransactionLoads[txFile, u.config]
        u1 == IF hasOnb
              THEN [u EXCEPT !.onboarding_df = OnboardingLoads[onbFile]]
              ELSE u
    IN IF hasTx
       THEN [u1 EXCEPT !.transaction_df = loaded[1],
                       !.deposit_df = loaded[2],
                       !.has_deposit_df = TRUE]
       ELSE u1

----------------------------------------------------------------------------
(* LargeFileAnalyzer.                                                      *)

\* results, as _calculate_metrics initialises it.
LargeDefaultResults(year) ==
    [year |-> year,
     total_active_agents |-> 0,
     total_active_tellers |-> 0,
     agents_with_tellers |-> 0,
     agents_without_tellers |-> 0,
     onboarded_total |-> 0,
     onboarded_agents |-> 0,
     onboarded_tellers |-> 0,
     active_users_overall |-> 0,
     inactive_users_overall |-> 0,
     monthly_active_users |-> ZeroSeries,
     monthly_deposits |-> ZeroSeries,
     transaction_volume |-> 0,
     successful_transactions |-> 0,
     failed_transactions |-> 0,
     top_performing_agents |-> <<>>]

\* LargeFileAnalyzer(onboarding_path, transaction_path, config, use_chunked,
\* chunk_size=chunk_size)
NewLargeAnalyzer(config, useChunked, chunkSize) ==
    [config |-> config,
     use_chunked |-> useChunked,
     chunk_size |-> chunkSize,
     onboarding_df |-> NoneDF,
     transaction_chunks |-> <<>>,
     deposit_chunks |-> <<>>,
     results_cache |-> "None"]

\* read_csv(usecols=...) raises when the file lacks one of the columns.
UsecolsError(file, cols) ==
    IF cols \subseteq file.cols THEN "" ELSE "ValueError: Usecols do not match columns"

\* The cleaning of one onboarding row by preprocess_onboarding_data: as the
\* other analyzer's, with the registration date parsed without a format.
LargeCleanOnbRow(r) ==
    [id |-> StrStrip(ReadCell(r.id)),
     entity |-> StrStrip(StrUpper(ReadCell(r.entity))),
     status |-> StrStrip(StrUpper(ReadCell(r.status))),
     reg |-> ToDatetime(ReadCell(r.reg))]

\* preprocess_onboarding_data: onboarding_df for a file with the columns.
PreprocessOnboarding(file) ==
    Frame(OnbCols, [i \in DOMAIN file.rows |-> LargeCleanOnbRow(file.rows[i])])

\* preprocess_onboarding_data on every onboarding file of the runs.
LargeOnboardingLoads == [f \in AllOnbFiles |-> PreprocessOnboarding(f)]

\* The rows read_csv hands over in pieces of chunksize rows; a file without
\* rows is read as one piece without rows.
RECURSIVE SplitRows(_, _)
SplitRows(rows, size) ==
    IF Len(rows) <= size THEN <<rows>>
    ELSE <<SubSeq(rows, 1, size)>> \o SplitRows(SubSeq(rows, size + 1, Len(rows)), size)

\* The dtype read_csv infers for the amount column of one piece: numbers
\* when every cell present is a number, text otherwise.
InferAmounts(rows) ==
    IF \A i \in DOMAIN rows : IsMissing(rows[i].amount) \/ ToNumeric(rows[i].amount).k = "num"
    THEN [i \in DOMAIN rows |-> [rows[i] EXCEPT !.amount = ToNumeric(@)]]
    ELSE [i \in DOMAIN rows |->
            [rows[i] EXCEPT !.amount = IF IsMissing(@) THEN NaN ELSE @]]

\* The pieces of a transaction file as frames: chunk_size rows each when
\* use_chunked, the whole file otherwise.  Each carries the cells as
\* _process_transaction_chunk leaves them in the piece it is handed: text
\* columns cleaned, Created At parsed, Year and Month added.
ReadTransactionChunks(file, useChunked, chunkSize) ==
    LET df == CleanTransactions(file)
        cols == NeededCols \cup {"Year", "Month"}
        pieces == IF useChunked THEN SplitRows(df.rows, chunkSize) ELSE <<df.rows>>
    IN [c \in DOMAIN pieces |-> Frame(cols, InferAmounts(pieces[c]))]

\* A text column without a single text cell is read as a float column, and
\* its .str accessor raises AttributeError; both chunk functions catch it
\* and return None.
StrAccessorFails(chunk) ==
    /\ Len(chunk.rows) > 0
    /\ \E c \in DOMAIN TextCols :
          \A i \in DOMAIN chunk.rows : Label(chunk.rows[i], TextCols[c]) = NA

\* _process_transaction_chunk: the rows of the configured year; NoneDF for
\* None.
ProcessTransactionChunk(chunk, config) ==
    LET kept == CurrentYearOf(chunk, config.year)
    IN IF StrAccessorFails(chunk) \/ IsEmpty(kept) THEN NoneDF ELSE kept

\* _extract_deposits_from_chunk, of the chunk _process_transaction_chunk has
\* cleaned in place: its deposit rows, of every year; NoneDF for None.
ExtractDepositsFromChunk(chunk, config) ==
    LET dep == DepositsOf(chunk, config.deposit_keywords)
    IN IF StrAccessorFails(chunk) \/ IsEmpty(dep) THEN NoneDF ELSE dep

\* The list a loop of appends builds: the frames that are not None.
NotNone(frames) == SelectSeq(frames, LAMBDA f : ~f.isNone)

\* The list held if the chunks of a call were appended to the chunks of
\* the calls before it.
KeepChunksAppending(old, new) == old \o new

\* self.transaction_chunks after preprocess_transaction_data: the new list
\* when it is not empty, the list held before otherwise.
KeepChunks(old, new) == IF Len(new) > 0 THEN new ELSE old

\* The two lists preprocess_transaction_data builds from a file: the
\* processed chunks and the deposit chunks that are not None.
ChunkLists(file, config, useChunked, chunkSize) ==
    LET chunks == ReadTransactionChunks(file, useChunked, chunkSize)
    IN <<NotNone([c \in DOMAIN chunks |-> ProcessTransactionChunk(chunks[c], config)]),
         NotNone([c \in DOMAIN chunks |-> ExtractDepositsFromChunk(chunks[c], config)])>>

\* The lists of every transaction file of the runs, under every
\* configuration and chunking.
ChunkListsOf ==
    [f \in AllTxFiles, c \in AllConfigs, ch \in BOOLEAN, sz \in 1..MaxChunkSize |->
        ChunkLists(f, c, ch, sz)]

\* preprocess_transaction_data
PreprocessTransactions(a, file) ==
    LET lists == ChunkListsOf[file, a.config, a.use_chunked, a.chunk_size]
    IN [a EXCEPT !.transaction_chunks = KeepChunks(@, lists[1]),
                 !.deposit_chunks = KeepChunks(@, lists[2])]

\* pd.concat(frames, ignore_index=True) of frames with the same columns.
RECURSIVE ConcatRows(_)
ConcatRows(frames) ==
    IF Len(frames) = 0 THEN <<>> ELSE Head(frames).rows \o ConcatRows(Tail(frames))

\* The frames with the amount column coerced to numbers.
CoerceChunk(df) ==
    Frame(df.cols, [i \in DOMAIN df.rows |-> [df.rows[i] EXCEPT !.amount = ToNumeric(@)]])

\* The analyzer after _calculate_metrics: the amounts of every transaction
\* chunk coerced in place, and those of a single deposit chunk too.
CoerceHeld(a) ==
    [a EXCEPT !.transaction_chunks = [c \in DOMAIN @ |-> CoerceChunk(@[c])],
              !.deposit_chunks = IF Len(@) = 1 THEN <<CoerceChunk(@[1])>> ELSE @]

\* _calculate_metrics
LargeCalculateMetrics(a) ==
    LET year == a.config.year
        n == a.config.min_deposits_for_active
        onb == a.onboarding_df
        fromOnboarding ==
            IF onb.isNone THEN <<>>
            ELSE AgentMetrics(onb, year)
        tx == ConcatRows(a.transaction_chunks)
        fromTransactions ==
            IF Len(a.transaction_chunks) = 0 THEN <<>>
            ELSE [transaction_volume |->
                      SumSeq([i \in DOMAIN tx |-> NumOf(ToNumeric(tx[i].amount))]),
                  successful_transactions |->
                      Len(SelectSeq(tx, LAMBDA r : IsSuccess(r.tstatus))),
                  failed_transactions |->
                      Len(SelectSeq(tx, LAMBDA r : IsFailed(r.tstatus)))]
        deposits == ConcatRows(a.deposit_chunks)
        dep == [i \in DOMAIN deposits |-> [deposits[i] EXCEPT !.amount = ToNumeric(@)]]
        withTellers == Cardinality(DistinctParents(dep))
        agents == (fromOnboarding @@ LargeDefaultResults(year)).total_active_agents
        fromDeposits ==
            IF Len(a.deposit_chunks) = 0 THEN <<>>
            ELSE [agents_with_tellers |-> withTellers,
                  agents_without_tellers |-> WithoutTellers(agents, withTellers),
                  active_users_overall |-> ActiveUsers(dep, n),
                  inactive_users_overall |-> InactiveUsers(dep, n),
                  monthly_deposits |-> MonthlyCounts(dep),
                  monthly_active_users |->
                      [m \in Months |-> ActiveUsers(MonthRows(dep, m), n)],
                  top_performing_agents |-> TopAgents(dep, TRUE)]
    IN fromDeposits @@ fromTransactions @@ fromOnboarding @@ LargeDefaultResults(year)

\* LargeFileAnalyzer.calculate_all_metrics on the files now at its two
\* paths: <<outcome, analyzer after the call>>.
LargeCalculateAllMetrics(a, onbFile, txFile) ==
    LET a1 == [a EXCEPT !.onboarding_df = LargeOnboardingLoads[onbFile]]
        a2 == PreprocessTransactions(a1, txFile)
    IN IF UsecolsError(onbFile, OnbCols) # ""
       THEN <<Raised(UsecolsError(onbFile, OnbCols)), a>>
       ELSE IF UsecolsError(txFile, NeededCols) # ""
       THEN <<Raised(UsecolsError(txFile, NeededCols)), a1>>
       ELSE <<Returned(LargeCalculateMetrics(a2)), CoerceHeld(a2)>>

\* A cleanup that leaves the deposit chunks in place.
CleanedUpKeepingDeposits(a) ==
    [a EXCEPT !.onboarding_df = NoneDF,
              !.transaction_chunks = <<>>,
              !.results_cache = "None"]

\* LargeFileAnalyzer.cleanup
CleanedUp(a) ==
    [a EXCEPT !.onboarding_df = NoneDF,
              !.transaction_chunks = <<>>,
              !.deposit_chunks = <<>>,
              !.results_cache = "None"]

\* The size of a file in megabytes, as os.path.getsize(...) / (1024 ** 2)
\* rounded down: a row takes some hundred bytes.
BytesPerRow == 100
FileSizeMB(file) == (Len(file.rows) * BytesPerRow) \div (1024 * 1024)

\* The values calculate_all_metrics passes to progress_callback, in
\* thousandths and in the order of the calls, up to the call that raises if
\* one does.  preprocess_onboarding_data reports 0.1, 0.5 and 0.6, each
\* scaled by 0.3 (the onboarding file is read in chunks, with further
\* reports, only above 100 MB); preprocess_transaction_data reports 0.6,
\* then 0.6 + (chunk_num / estimated_chunks) * 0.3 for every chunk read when
\* use_chunked, then 0.9, each scaled as 0.3 + p * 0.4.
ProgressCalls(a, onbFile, txFile) ==
    LET estimated == Max(1, FileSizeMB(txFile) \div 100)
        scaled(p) == 300 + (p * 4) \div 10
        chunks == ReadTransactionChunks(txFile, a.use_chunked, a.chunk_size)
        perChunk == IF a.use_chunked
                    THEN [k \in DOMAIN chunks |-> scaled(600 + (k * 300) \div estimated)]
                    ELSE <<>>
    IN IF UsecolsError(onbFile, OnbCols) # "" THEN <<0, 30>>
       ELSE IF UsecolsError(txFile, NeededCols) # "" THEN <<0, 30, 150, 180, scaled(600)>>
       ELSE <<0, 30, 150, 180, scaled(600)>> \o perChunk \o <<scaled(900), 700, 1000>>

\* st.session_state as the first run of the script initialises it.
NewSession ==
    [analyzer |-> [isNone |-> TRUE, obj |-> <<>>],
     data_loaded |-> FALSE,
     metrics |-> [isNone |-> TRUE, rec |-> <<>>],
     onboarding_path |-> "None",
     transaction_path |-> "None"]

----------------------------------------------------------------------------
(* The state: one analyzer object per run, and what its calls returned.    *)

VARIABLES
    engine,     \* the analyzer the run exercises: "UltraFast" or "LargeFile"
    uf,         \* the AgentPerformanceAnalyzerUltraFast object
    lf,         \* the LargeFileAnalyzer object
    disk,       \* the files at the LargeFileAnalyzer's two paths
    ret,        \* the outcome of the last calculate_all_metrics call
    prev,       \* the outcome of the call before it
    calls,      \* calculate_all_metrics calls since the inputs last changed
    lastData,   \* the last operation that gave the analyzer data
    loads,      \* operations that gave the analyzer data, so far
    ops,        \* operations so far
    progress,   \* the values the last call passed to progress_callback
    session,    \* st.session_state of the dashboard
    available,  \* ANALYZER_AVAILABLE: the import of the analyzer succeeded
    page        \* how the last rendering of a page ended


vars == <<engine, uf, lf, disk, ret, prev, calls, lastData, loads, ops, tieOrder,
          progress, session, available, page>>

DefaultConfig == Config(2025, 20, DefaultKeywords)
NoDisk == [onb |-> File(OnbCols, <<>>), tx |-> File(NeededCols, <<>>)]

InitObservers ==
    /\ ret = NoCall
    /\ prev = NoCall
    /\ calls = 0
    /\ lastData = "none"
    /\ loads = 0
    /\ ops = 0
    /\ progress = <<>>

\* A new analyzer of either class, built with a configuration of C; the
\* LargeFileAnalyzer with files of O and T at its paths.
InitWith(C, O, T) ==
    /\ InitObservers
    /\ session = NewSession /\ available = TRUE /\ page = "none"
    /\ tieOrder \in {"kept", "reversed"}
    /\ engine \in {"UltraFast", "LargeFile"}
    /\ IF engine = "UltraFast"
       THEN /\ uf \in {NewAnalyzer(c) : c \in C}
            /\ lf = NewLargeAnalyzer(DefaultConfig, TRUE, 1)
            /\ disk = NoDisk
       ELSE /\ uf = NewAnalyzer(DefaultConfig)
            /\ lf \in {NewLargeAnalyzer(c, ch, sz) :
                          c \in C, ch \in BOOLEAN, sz \in 1..MaxChunkSize}
            /\ disk \in [onb : O, tx : T]

\* Bookkeeping of an operation that changes the analyzer's inputs.
InputsChanged(op) ==
    /\ calls' = 0
    /\ lastData' = op
    /\ ops' = ops + 1
    /\ UNCHANGED <<engine, ret, prev, tieOrder, progress, session, available, page>>

\* analyzer.set_data(onboarding_df, transaction_df)
SetData(O, T, maxLoads) ==
    /\ engine = "UltraFast" /\ ops < MaxOps /\ loads < maxLoads
    /\ \E o \in O, t \in T :
          uf' = SetDataOn(uf, CallerOnboardingFrames[o], CallerTransactionFrames[t])
    /\ loads' = loads + 1
    /\ InputsChanged("set_data")
    /\ UNCHANGED <<lf, disk>>

\* analyzer.load_and_preprocess_data(onboarding_file, transaction_file), with
\* both file names or one of them.
Load(O, T, maxLoads) ==
    /\ engine = "UltraFast" /\ ops < MaxOps /\ loads < maxLoads
    /\ \E o \in O, t \in T, hasOnb \in BOOLEAN, hasTx \in BOOLEAN :
          /\ hasOnb \/ hasTx
          /\ uf' = LoadAndPreprocess(uf, hasOnb, o, hasTx, t)
    /\ loads' = loads + 1
    /\ InputsChanged("load")
    /\ UNCHANGED <<lf, disk>>

\* analyzer.config.year = ..., and the like: another configuration of C.
SetConfig(C) ==
    /\ engine = "UltraFast" /\ ops < MaxOps
    /\ \E c \in C : c # uf.config /\ uf' = [uf EXCEPT !.config = c]
    /\ UNCHANGED loads
    /\ InputsChanged("config")
    /\ UNCHANGED <<lf, disk>>

\* analyzer.calculate_all_metrics() of AgentPerformanceAnalyzerUltraFast
Calculate ==
    /\ engine = "UltraFast" /\ ops < MaxOps /\ calls < MaxCalls
    /\ \E out \in {CalculateAllMetrics(uf)} :
          ret' = out[1] /\ uf' = out[2]
    /\ prev' = ret
    /\ calls' = calls + 1
    /\ ops' = ops + 1
    /\ UNCHANGED <<engine, lf, disk, lastData, loads, tieOrder, progress, session, available, page>>

\* The files at the LargeFileAnalyzer's paths are replaced.
WriteFiles(O, T, maxLoads) ==
    /\ engine = "LargeFile" /\ ops < MaxOps /\ loads < maxLoads
    /\ \E o \in O, t \in T : disk' = [onb |-> o, tx |-> t] /\ disk' # disk
    /\ loads' = loads + 1
    /\ InputsChanged("files")
    /\ UNCHANGED <<uf, lf>>

\* analyzer.calculate_all_metrics() of LargeFileAnalyzer
LargeCalculate ==
    /\ engine = "LargeFile" /\ ops < MaxOps /\ calls < MaxCalls
    /\ \E out \in {LargeCalculateAllMetrics(lf, disk.onb, disk.tx)} :
          ret' = out[1] /\ lf' = out[2]
    /\ progress' = ProgressCalls(lf, disk.onb, disk.tx)
    /\ prev' = ret
    /\ calls' = calls + 1
    /\ ops' = ops + 1
    /\ UNCHANGED <<engine, uf, disk, lastData, loads, tieOrder,
                 session, available, page>>

\* analyzer.cleanup() of LargeFileAnalyzer
Cleanup ==
    /\ engine = "LargeFile" /\ ops < MaxOps
    /\ lf' = CleanedUp(lf)
    /\ InputsChanged("cleanup")
    /\ UNCHANGED <<uf, disk, loads>>

\* The lifecycle of one analyzer object: data given more than once, the
\* configuration changed, the metrics calculated in between.
Init == InitWith(LifeConfigs, LifeOnbFiles, LifeTxFiles)

Next ==
    \/ SetData(LifeOnbFiles, LifeTxFiles, MaxLoads)
    \/ Load(LifeOnbFiles, LifeTxFiles, MaxLoads)
    \/ SetConfig(LifeConfigs)
    \/ Calculate
    \/ WriteFiles(LifeOnbFiles, LifeTxFiles, MaxLoads)
    \/ LargeCalculate
    \/ Cleanup

Spec == Init /\ [][Next]_vars

\* A single analysis run: a new analyzer is given one pair of files, of any
\* content, and calculates.
InitRun == InitWith(Configs, OnbFiles, TxFiles)

NextRun ==
    \/ SetData(OnbFiles, TxFiles, 1)
    \/ Load(OnbFiles, TxFiles, 1)
    \/ Calculate
    \/ LargeCalculate

SpecRun == InitRun /\ [][NextRun]_vars

----------------------------------------------------------------------------
(* The dashboard: clicks of Process Data and the pages that read the       *)
(* session state.                                                          *)

\* The transaction files a user of the dashboard points it at.
SessionTxFiles == {File(NeededCols, <<WithdrawalRow>>), File(NeededCols, <<DepositRow>>)}

\* Clicks and page views of one session.
MaxClicks == 3

\* The metrics the handler writes itself: for the sample data, and for
\* files when the analyzer could not be imported (the figures of a file of
\* 100 MB, scaled by the size of the uploads up to a hundredfold).
SampleMetrics(year) ==
    [year |-> year, total_active_agents |-> 2, total_active_tellers |-> 2,
     agents_with_tellers |-> 1, agents_without_tellers |-> 1,
     onboarded_total |-> 3, onboarded_agents |-> 2, onboarded_tellers |-> 1,
     active_users_overall |-> 3, inactive_users_overall |-> 1,
     transaction_volume |-> 1250,
     successful_transactions |-> 4, failed_transactions |-> 1,
     monthly_active_users |-> [m \in Months |-> 3],
     monthly_deposits |-> [m \in Months |-> 5]]

RECURSIVE GCD(_, _)
GCD(a, b) == IF b = 0 THEN a ELSE GCD(b, a % b)

\* int(x * min(bytes / (100 * 1024 * 1024), 100)), with the fraction reduced
\* before the product is taken.
ScaleBySize(x, bytes) ==
    LET HundredMB == 100 * 1024 * 1024
        g == GCD(x, HundredMB)
    IN IF bytes \div HundredMB >= 100 THEN 100 * x
       ELSE ((x \div g) * bytes) \div (HundredMB \div g)

DemoMetrics(year) ==
    [year |-> year,
     total_active_agents |-> 1250, total_active_tellers |-> 3250,
     agents_with_tellers |-> 850, agents_without_tellers |-> 400,
     onboarded_total |-> 1500, onboarded_agents |-> 1000,
     onboarded_tellers |-> 500,
     active_users_overall |-> 2800, inactive_users_overall |-> 1700,
     transaction_volume |-> 12500000,
     successful_transactions |-> 125000, failed_transactions |-> 2500,
     monthly_active_users |-> [m \in Months |-> 2500],
     monthly_deposits |-> [m \in Months |-> 50000]]

ScaledDemoMetrics(year, bytes) ==
    LET demo == DemoMetrics(year)
        counts == DOMAIN demo \ {"year", "monthly_active_users", "monthly_deposits"}
    IN [f \in DOMAIN demo |->
           IF f \in counts THEN ScaleBySize(demo[f], bytes)
           ELSE IF f = "year" THEN year
           ELSE [m \in Months |-> ScaleBySize(demo[f][m], bytes)]]

\* What the handler leaves in the session after it has stored the two paths
\* and processed the files: with the analyzer imported, the new analyzer and
\* its record, or the session as it is when a call raises (the handler
\* catches the exception before it sets data_loaded); without it, the
\* metrics of the demonstration.
Processed(sess, config, onbFile, txFile, demo) ==
    LET loaded == LoadAndPreprocess(NewAnalyzer(config), TRUE, onbFile, TRUE, txFile)
        out == CalculateAllMetrics(loaded)
    IN IF available
       THEN IF out[1].kind = "raise" THEN sess
            ELSE [sess EXCEPT !.analyzer = [isNone |-> FALSE, obj |-> out[2]],
                              !.metrics = [isNone |-> FALSE, rec |-> out[1].rec],
                              !.data_loaded = TRUE]
       ELSE [sess EXCEPT !.metrics = [isNone |-> FALSE, rec |-> demo],
                         !.data_loaded = TRUE]

\* What a click leaves unchanged, and its bookkeeping.
Clicked ==
    /\ ops' = ops + 1
    /\ UNCHANGED <<engine, uf, lf, disk, ret, prev, calls, lastData, loads,
                   tieOrder, progress, available>>

\* Process Data with Use Sample Data ticked.
ProcessSample ==
    /\ ops < MaxClicks
    /\ \E config \in Configs :
          session' = [session EXCEPT !.onboarding_path = "None",
                                     !.transaction_path = "None",
                                     !.metrics = [isNone |-> FALSE,
                                                  rec |-> SampleMetrics(config.year)],
                                     !.data_loaded = TRUE]
    /\ UNCHANGED page
    /\ Clicked

\* Process Data with two paths typed in: an error message when one of the
\* files does not exist.
ProcessPaths ==
    /\ ops < MaxClicks
    /\ \E config \in Configs, o \in LifeOnbFiles, t \in SessionTxFiles,
          onbExists \in BOOLEAN, txExists \in BOOLEAN :
          session' =
              IF ~onbExists \/ ~txExists THEN session
              ELSE Processed([session EXCEPT !.onboarding_path = "typed",
                                             !.transaction_path = "typed"],
                             config, o, t, DemoMetrics(config.year))
    /\ UNCHANGED page
    /\ Clicked

\* Process Data with two uploaded files, which are saved to temp_uploads.
ProcessUploads ==
    /\ ops < MaxClicks
    /\ \E config \in Configs, o \in LifeOnbFiles, t \in SessionTxFiles :
          session' =
              Processed([session EXCEPT !.onboarding_path = "temp_uploads",
                                        !.transaction_path = "temp_uploads"],
                        config, o, t,
                        ScaledDemoMetrics(config.year,
                                          (Len(o.rows) + Len(t.rows)) * BytesPerRow))
    /\ UNCHANGED page
    /\ Clicked

\* Process Data with nothing selected: a warning.
ProcessNothing ==
    /\ ops < MaxClicks
    /\ UNCHANGED <<session, page>>
    /\ Clicked

\* pages/2_Agent_Analytics.py: under the data_loaded guard the page reads
\* analyzer.onboarding_df, which raises AttributeError on None.
ViewAgentAnalytics ==
    /\ ops < MaxClicks
    /\ page' = IF ~session.data_loaded THEN "no data"
               ELSE IF session.analyzer.isNone THEN "AttributeError"
               ELSE "rendered"
    /\ UNCHANGED session
    /\ Clicked

\* A session of the dashboard, in an installation where the analyzer module
\* can be imported or in one where it cannot.
InitSession ==
    /\ InitObservers
    /\ session = NewSession /\ available \in BOOLEAN /\ page = "none"
    /\ tieOrder \in {"kept", "reversed"}
    /\ engine = "UltraFast"
    /\ uf = NewAnalyzer(DefaultConfig)
    /\ lf = NewLargeAnalyzer(DefaultConfig, TRUE, 1)
    /\ disk = NoDisk

NextSession ==
    \/ ProcessSample
    \/ ProcessPaths
    \/ ProcessUploads
    \/ ProcessNothing
    \/ ViewAgentAnalytics

SpecSession == InitSession /\ [][NextSession]_vars

----------------------------------------------------------------------------
(* What the returned records are compared with.                            *)

\* The outcome calculate_all_metrics gives for the tables and the
\* configuration the analyzer u holds when _processed_data is empty.
Uncached(u) == CalculateAllMetrics([u EXCEPT !.processed_data = <<>>])[1]

\* The outcome of a new AgentPerformanceAnalyzerUltraFast that is handed the
\* two tables of u by set_data, and of a new LargeFileAnalyzer on the files
\* now at the paths.
FreshUltraFast(u) ==
    CalculateAllMetrics(SetDataOn(NewAnalyzer(u.config), u.onboarding_df, u.transaction_df))[1]
FreshLarge(a, files) ==
    LargeCalculateAllMetrics(NewLargeAnalyzer(a.config, a.use_chunked, a.chunk_size),
                             files.onb, files.tx)[1]

\* The last operation was a calculate_all_metrics call that returned a
\* record computed from two tables (not the defaults of an analyzer without
\* data).
Computed ==
    /\ calls > 0
    /\ ret.kind = "record"
    /\ engine = "UltraFast" => ~uf.onboarding_df.isNone /\ ~uf.transaction_df.isNone

TargetYear == IF engine = "LargeFile" THEN lf.config.year ELSE uf.config.year

\* The onboarding table and the year-filtered transaction rows the analyzer
\* holds.
OnboardingHeld == IF engine = "LargeFile" THEN lf.onboarding_df ELSE uf.onboarding_df
TransactionsHeld ==
    IF engine = "LargeFile" THEN ConcatRows(lf.transaction_chunks)
    ELSE uf.transaction_df.rows

\* The deposit-classified rows of the transaction input the analyzer was
\* last given: of the file, or of the table handed to set_data.
DepositRowsGiven ==
    IF engine = "LargeFile" THEN TransactionLoads[disk.tx, lf.config][2].rows
    ELSE IF uf.has_deposit_df THEN uf.deposit_df.rows
    ELSE IF uf.transaction_df.isNone THEN <<>>
    ELSE DepositsOf(uf.transaction_df, uf.config.deposit_keywords).rows

\* The rows whose timestamp parsed and falls in the year.
InYear(rows, year) == SelectSeq(rows, LAMBDA r : r.created.ok /\ r.Year = year)

\* The rows of the current transaction input that fall in the target year.
YearFilteredGiven ==
    IF engine = "LargeFile" THEN TransactionLoads[disk.tx, lf.config][1].rows
    ELSE TransactionsHeld

\* The classifications by case-insensitive substring.
TellerBySubstring(e) == StrContains(e, "TELLER")
SuccessBySubstring(st) == StrContains(st, "SUCCESS") \/ StrContains(st, "COMPLETED")
FailedBySubstring(st) ==
    \/ StrContains(st, "FAIL") \/ StrContains(st, "REJECTED")
    \/ StrContains(st, "ERROR") \/ StrContains(st, "DECLINED")

\* Scenario B: the transaction input is the single deposit row of 2025 and
\* 2025 is the target year.
ScenarioBFile == File(NeededCols, <<DepositRow>>)
ScenarioB ==
    /\ TargetYear = 2025
    /\ IF engine = "LargeFile" THEN disk.tx = ScenarioBFile
       ELSE /\ uf.has_deposit_df
            /\ uf.deposit_df = TransactionLoads[ScenarioBFile, uf.config][2]
            /\ Len(uf.transaction_df.rows) = 1

\* An expected column is missing from a table the analyzer was given.
MissingColumn ==
    IF engine = "LargeFile"
    THEN disk.onb.cols # OnbCols \/ disk.tx.cols # NeededCols
    ELSE /\ ~uf.onboarding_df.isNone /\ ~uf.transaction_df.isNone
         /\ \/ ~(OnbCols \subseteq uf.onboarding_df.cols)
            \/ ~(NeededCols \subseteq uf.transaction_df.cols)

\* Both tables were given, with every expected column.
CompleteInputs ==
    /\ ~MissingColumn
    /\ engine = "UltraFast" => ~uf.onboarding_df.isNone /\ ~uf.transaction_df.isNone

----------------------------------------------------------------------------
(* The claims.                                                             *)

\* C1: on one AgentPerformanceAnalyzerUltraFast, whatever set_data,
\* load_and_preprocess_data, configuration changes and earlier calls came
\* before, the record calculate_all_metrics returns is the record computed
\* from the tables and the configuration the analyzer holds now: the cache
\* never answers with a record computed for other tables or another
\* configuration.
C1_PureOfCurrentInputs ==
    (engine = "UltraFast" /\ calls > 0 /\ ret.kind = "record") => ret = Uncached(uf)

\* C2: two calls of calculate_all_metrics in a row, with the same tables and
\* the same configuration, return the same record, field by field, although
\* the first call coerced the amount column of the stored table in place.
C2_Idempotent == (calls = 2 /\ prev.kind = "record") => ret = prev

\* C2, its case: the second of two calls on an AgentPerformanceAnalyzerUltraFast
\* whose stored amounts the first call coerced to numbers, returning a
\* record with a transaction volume.
C2_SecondCallAfterCoercion ==
    /\ engine = "UltraFast" /\ calls = 2
    /\ prev.kind = "record" /\ ret.kind = "record"
    /\ ret.rec.transaction_volume > 0
    /\ \E i \in DOMAIN uf.transaction_df.rows : uf.transaction_df.rows[i].amount.k = "num"

\* C3: when an analyzer is run again on new inputs, the record is the one
\* a new analyzer computes from the new inputs alone: no transaction table,
\* deposit subset or chunk list of an earlier run contributes to it.
C3_NothingPersists ==
    (calls > 0 /\ ret.kind = "record") =>
        /\ engine = "LargeFile" => ret = FreshLarge(lf, disk)
        /\ (engine = "UltraFast" /\ lastData = "set_data") => ret = FreshUltraFast(uf)

\* C4: when a table lacks an expected column, calculate_all_metrics does
\* not raise: it returns a record, with a zero volume when the amount
\* column is the missing one.
C4_MissingColumnsNeverRaise ==
    (calls > 0 /\ MissingColumn) =>
        /\ ret.kind = "record"
        /\ (engine = "UltraFast" /\ "Transaction Amount" \notin uf.transaction_df.cols)
              => ret.rec.transaction_volume = 0

\* C5: when the transaction input has a deposit row dated in the target
\* year (and both tables have every expected column),
\* calculate_all_metrics returns a record; for Scenario B the record
\* has the volume 100, one successful transaction and one deposit in
\* January, none in the other months.
C5_CompletesWithDeposits ==
    (calls > 0 /\ CompleteInputs /\ Len(InYear(DepositRowsGiven, TargetYear)) > 0) =>
        /\ ret.kind = "record"
        /\ ScenarioB => /\ ret.rec.transaction_volume = 100
                        /\ ret.rec.successful_transactions = 1
                        /\ ret.rec.monthly_deposits = [ZeroSeries EXCEPT ![1] = 1]

\* C6: in every returned record the monthly deposits add up to the number
\* of deposit-classified rows whose timestamp parsed and falls in the target
\* year.
C6_MonthlySum ==
    Computed =>
        SumTo(ret.rec.monthly_deposits, 12) = Len(InYear(DepositRowsGiven, TargetYear))

\* C7: every active entity whose entity type contains TELLER is counted in
\* total_active_tellers, and in onboarded_tellers when it registered in the
\* target year.
C7_TellerSubstring ==
    Computed =>
        /\ ret.rec.total_active_tellers =
              Len(SelectSeq(OnboardingHeld.rows,
                        LAMBDA r : ActiveMask(r) /\ TellerBySubstring(r.entity)))
        /\ ret.rec.onboarded_tellers =
              Len(SelectSeq(OnboardingHeld.rows,
                        LAMBDA r : /\ r.reg.ok /\ r.reg.year = TargetYear
                                   /\ ActiveMask(r) /\ TellerBySubstring(r.entity)))

\* C8: successful_transactions counts the year-filtered rows whose status
\* contains SUCCESS or COMPLETED, failed_transactions those whose status
\* contains FAIL, REJECTED, ERROR or DECLINED, in any letter case.
C8_StatusSubstring ==
    Computed =>
        /\ ret.rec.successful_transactions =
              Len(SelectSeq(TransactionsHeld, LAMBDA r : SuccessBySubstring(r.tstatus)))
        /\ ret.rec.failed_transactions =
              Len(SelectSeq(TransactionsHeld, LAMBDA r : FailedBySubstring(r.tstatus)))

\* C9: in every returned record successful_transactions plus
\* failed_transactions is at most the number of rows of the year-filtered
\* transaction table, and equals it only when every row's status matches
\* one of the two keyword sets.
C9_StatusPartition ==
    Computed =>
        LET counted == ret.rec.successful_transactions + ret.rec.failed_transactions
            rows == YearFilteredGiven
        IN /\ counted <= Len(rows)
           /\ counted = Len(rows) =>
                 \A i \in DOMAIN rows :
                    SuccessBySubstring(rows[i].tstatus) \/ FailedBySubstring(rows[i].tstatus)

\* C10: in every returned record agents_without_tellers is
\* max(0, total_active_agents - agents_with_tellers).
C10_FlooredDifference ==
    Computed =>
        ret.rec.agents_without_tellers =
            Max(0, ret.rec.total_active_agents - ret.rec.agents_with_tellers)

\* C11: in every record either analyzer returns, agents_without_tellers is
\* not negative, also when the deposits name more distinct parents than
\* there are active agents.
C11_NeverNegative ==
    (calls > 0 /\ ret.kind = "record") => ret.rec.agents_without_tellers >= 0

\* C11, its case: a record computed from deposits that name more distinct
\* parents than the roster has active agents.
C11_ParentsExceedAgents ==
    /\ calls > 0 /\ ret.kind = "record"
    /\ ret.rec.agents_with_tellers > ret.rec.total_active_agents
    /\ ret.rec.agents_without_tellers = 0

\* The identifier, entity type and status of every row of the roster the
\* analyzer holds.
RosterHeld ==
    [i \in DOMAIN OnboardingHeld.rows |->
        <<OnboardingHeld.rows[i].id, OnboardingHeld.rows[i].entity,
          OnboardingHeld.rows[i].status>>]

\* Scenario A: the roster [E1 AGENT ACTIVE, E2 AGENT TELLER ACTIVE,
\* E3 AGENT TERMINATED].
ScenarioA ==
    RosterHeld = << <<"E1", "AGENT", "ACTIVE">>,
                    <<"E2", "AGENT TELLER", "ACTIVE">>,
                    <<"E3", "AGENT", "TERMINATED">> >>

\* C12: total_active_agents is the number of roster rows whose entity type
\* is AGENT and whose status is none of TERMINATED, BLOCKED, SUSPENDED,
\* INACTIVE, a missing or unknown status counting as active and every row
\* of a repeated identifier counting; Scenario A gives one active agent and
\* one active teller.
C12_OpenWorldActive ==
    Computed =>
        /\ ret.rec.total_active_agents =
              Cardinality({i \in DOMAIN RosterHeld :
                  /\ RosterHeld[i][2] = "AGENT"
                  /\ RosterHeld[i][3] \notin
                        {"TERMINATED", "BLOCKED", "SUSPENDED", "INACTIVE"}})
        /\ ScenarioA => /\ ret.rec.total_active_agents = 1
                        /\ ret.rec.total_active_tellers = 1

\* C12, its cases: a record for Scenario A, and a record that counts two
\* rows of one identifier, one without a status and one with an unknown
\* status.
C12_RosterCounted ==
    /\ Computed
    /\ \/ ScenarioA
       \/ /\ RosterHeld = << <<"E4", "AGENT", NA>>, <<"E4", "AGENT", "ON HOLD">> >>
          /\ ret.rec.total_active_agents = 2

\* A label that is present and contains one of the keywords, in any letter
\* case.
LabelMatches(v, keywords) ==
    /\ ReadCell(v) # NA
    /\ \E k \in DOMAIN keywords : Contains(UpperText(v), UpperText(keywords[k]))

\* The classification of a row of a table with the columns cols: one of
\* the three labels the table has matches.
DepositByLabels(r, cols, keywords) ==
    \/ "Service Name" \in cols /\ LabelMatches(r.service, keywords)
    \/ "Transaction Type" \in cols /\ LabelMatches(r.ttype, keywords)
    \/ "Product Name" \in cols /\ LabelMatches(r.product, keywords)

\* The index labels of the rows in the deposit subset a LargeFileAnalyzer
\* holds.
DepositIndexesHeld == {r.idx : r \in {ConcatRows(lf.deposit_chunks)[i] :
                                         i \in DOMAIN ConcatRows(lf.deposit_chunks)}}

\* C13: the deposit subset holds exactly the rows of the transaction input
\* of which one of Service Name, Transaction Type, Product Name contains a
\* keyword of the configuration: after a LargeFileAnalyzer has read the
\* file at its path, and after load_and_preprocess_data for the rows the
\* AgentPerformanceAnalyzerUltraFast holds.
C13_DepositIffAnyLabel ==
    /\ (engine = "LargeFile" /\ calls > 0 /\ ret.kind = "record") =>
          DepositIndexesHeld =
              {i - 1 : i \in {j \in DOMAIN disk.tx.rows :
                  DepositByLabels(disk.tx.rows[j], disk.tx.cols,
                                  lf.config.deposit_keywords)}}
    /\ (engine = "UltraFast" /\ lastData = "load" /\ uf.has_deposit_df) =>
          /\ \A i \in DOMAIN uf.deposit_df.rows :
                DepositByLabels(uf.deposit_df.rows[i], uf.deposit_df.cols,
                                uf.config.deposit_keywords)
          /\ \A i \in DOMAIN uf.transaction_df.rows :
                DepositByLabels(uf.transaction_df.rows[i], uf.transaction_df.cols,
                                uf.config.deposit_keywords)
                   => \E j \in DOMAIN uf.deposit_df.rows :
                         uf.deposit_df.rows[j].idx = uf.transaction_df.rows[i].idx

\* min_deposits_for_active of the analyzer's configuration.
Threshold ==
    IF engine = "LargeFile" THEN lf.config.min_deposits_for_active
    ELSE uf.config.min_deposits_for_active

\* The deposit rows of the current input that are dated in the target year.
DepositsInYear == InYear(DepositRowsGiven, TargetYear)

\* The users with at least n rows among rows.
UsersWithAtLeast(rows, n) ==
    {u \in {rows[i].user : i \in DOMAIN rows} \ {NA} :
        Cardinality({i \in DOMAIN rows : rows[i].user = u}) >= n}

\* C14: in every returned record monthly_active_users[m] is the number of
\* distinct users with at least min_deposits_for_active deposits dated in
\* month m of the target year; deposits of other months and other years do
\* not count toward m.
C14_MonthlyActiveUsers ==
    Computed =>
        \A m \in Months :
            ret.rec.monthly_active_users[m] =
                Cardinality(UsersWithAtLeast(
                    SelectSeq(DepositsInYear, LAMBDA r : r.Month = m), Threshold))

\* C15: in every returned record active_users_overall is the number of
\* distinct users with at least min_deposits_for_active deposits dated in
\* the target year, inactive_users_overall the number of those with fewer,
\* and the two add up to the number of distinct users with such a deposit.
C15_OverallPartition ==
    Computed =>
        LET active == UsersWithAtLeast(DepositsInYear, Threshold)
            all == UsersWithAtLeast(DepositsInYear, 1)
        IN /\ ret.rec.active_users_overall = Cardinality(active)
           /\ ret.rec.inactive_users_overall = Cardinality(all \ active)
           /\ ret.rec.active_users_overall + ret.rec.inactive_users_overall =
                 Cardinality(all)

\* The number an amount cell stands for, 0 for a missing or unreadable one.
ParsedAmount(c) == NumOf(ToNumeric(c))

\* C16: in every returned record transaction_volume is the sum of the
\* readable amounts of all rows of the year-filtered transaction table,
\* deposits or not; a row with a missing or unreadable amount adds nothing,
\* stays a row of the table, and does not make the call raise.
C16_VolumeOverAllRows ==
    /\ Computed =>
          /\ ret.rec.transaction_volume =
                SumSeq([i \in DOMAIN YearFilteredGiven |->
                           ParsedAmount(YearFilteredGiven[i].amount)])
          /\ Len(TransactionsHeld) = Len(YearFilteredGiven)
    /\ (/\ calls > 0 /\ CompleteInputs
        /\ \A i \in DOMAIN DepositRowsGiven : ~DepositRowsGiven[i].created.ok)
          => ret.kind = "record"

\* The rows of the deposit subset the analyzer holds.
DepositsHeld ==
    IF engine = "LargeFile" THEN ConcatRows(lf.deposit_chunks)
    ELSE IF uf.has_deposit_df THEN uf.deposit_df.rows
    ELSE <<>>

\* The sum of the readable amounts of the rows of user u.
UserTotal(rows, u) ==
    SumSeq([i \in DOMAIN rows |->
               IF rows[i].user = u THEN ParsedAmount(rows[i].amount) ELSE 0])

\* The number of the rows of user u with a readable amount.
UserCount(rows, u) ==
    Cardinality({i \in DOMAIN rows :
        rows[i].user = u /\ ToNumeric(rows[i].amount).k = "num"})

\* C17: in every returned record top_performing_agents has at most ten
\* entries, no two for one user; the total of each entry is at least the
\* total of the entry after it; and no user left out of the list has a
\* larger total than a user in it.
C17_TopOrdered ==
    Computed =>
        LET top == ret.rec.top_performing_agents
            total(i) == ParsedAmount(top[i].Total_Amount)
            listed == {top[i].user : i \in DOMAIN top}
            others == ({DepositsHeld[i].user : i \in DOMAIN DepositsHeld} \ {NA}) \ listed
        IN /\ Len(top) <= TopLimit
           /\ \A i, j \in DOMAIN top : top[i].user = top[j].user => i = j
           /\ \A i \in DOMAIN top : i < Len(top) => total(i) >= total(i + 1)
           /\ \A u \in others : \A i \in DOMAIN top : UserTotal(DepositsHeld, u) <= total(i)

\* C18: every entry of top_performing_agents reports, for its user, the
\* numeric sum of the readable amounts of the user's deposits and the
\* number of the user's deposits with a readable amount, in both analyzers.
C18_EntryTotals ==
    Computed =>
        \A i \in DOMAIN ret.rec.top_performing_agents :
            LET e == ret.rec.top_performing_agents[i]
            IN /\ e.Total_Amount = Num(UserTotal(DepositsHeld, e.user))
               /\ e.Transaction_Count = UserCount(DepositsHeld, e.user)

\* The place of the first row of user u in rows, the user's place in the
\* order of the input.
FirstRowOf(rows, u) ==
    CHOOSE i \in DOMAIN rows :
        rows[i].user = u /\ \A j \in 1..(i - 1) : rows[j].user # u

\* u comes before v in one of the two orders the users have before the
\* sort: the order of their first rows in the input, or the order in which
\* the grouping hands over its groups, which is that of the keys.
ComesBefore(u, v) ==
    \/ FirstRowOf(DepositsHeld, u) < FirstRowOf(DepositsHeld, v)
    \/ StrLess(u, v)

OnboardingEmpty ==
    IF engine = "LargeFile" THEN Len(disk.onb.rows) = 0
    ELSE ~uf.onboarding_df.isNone /\ Len(uf.onboarding_df.rows) = 0

TransactionsEmpty ==
    IF engine = "LargeFile" THEN Len(disk.tx.rows) = 0
    ELSE /\ ~uf.transaction_df.isNone /\ Len(uf.transaction_df.rows) = 0
         /\ uf.has_deposit_df => Len(uf.deposit_df.rows) = 0

\* The figures of a record that are counted from the onboarding table are
\* zero.
OnboardingFiguresZero(rec) ==
    /\ rec.total_active_agents = 0 /\ rec.total_active_tellers = 0
    /\ rec.onboarded_total = 0 /\ rec.onboarded_agents = 0
    /\ rec.onboarded_tellers = 0

\* The figures of a record that are counted from the transaction table are
\* zero, the ranking empty.
TransactionFiguresZero(rec) ==
    /\ rec.agents_with_tellers = 0
    /\ rec.active_users_overall = 0 /\ rec.inactive_users_overall = 0
    /\ rec.monthly_active_users = [m \in 1..12 |-> 0]
    /\ rec.monthly_deposits = [m \in 1..12 |-> 0]
    /\ rec.transaction_volume = 0
    /\ rec.successful_transactions = 0 /\ rec.failed_transactions = 0
    /\ rec.top_performing_agents = <<>>

DatedDeposits == SelectSeq(DepositRowsGiven, LAMBDA r : r.created.ok)

\* C21: in every returned record the rows whose Created At does not parse
\* add nothing: no row of the transaction table held is undated, and the
\* parents, the users and the ranked users counted are those of deposits
\* with a date; and a call on complete inputs whose deposits are all undated
\* returns a record.
C21_UndatedExcluded ==
    /\ Computed =>
          /\ \A i \in DOMAIN TransactionsHeld : TransactionsHeld[i].created.ok
          /\ ret.rec.agents_with_tellers <= Cardinality(DistinctParents(DatedDeposits))
          /\ ret.rec.active_users_overall + ret.rec.inactive_users_overall
                <= Cardinality(DistinctUsers(DatedDeposits))
          /\ \A i \in DOMAIN ret.rec.top_performing_agents :
                ret.rec.top_performing_agents[i].user \in DistinctUsers(DatedDeposits)
    /\ (/\ calls > 0 /\ CompleteInputs
        /\ \A i \in DOMAIN DepositRowsGiven : ~DepositRowsGiven[i].created.ok)
          => ret.kind = "record"

\* The rows of the roster held that count as onboarded in the year: the
\* registration date parsed, in the target year (with a status in none of
\* the four lists when activeOnly).
OnboardedHeld(activeOnly) ==
    SelectSeq(OnboardingHeld.rows,
              LAMBDA r : /\ r.reg.ok /\ r.reg.year = TargetYear
                         /\ activeOnly => ActiveMask(r))

C23_ChunkingTransparent ==
    (engine = "LargeFile" /\ calls > 0) =>
        /\ \A ch \in BOOLEAN, sz \in 1..MaxChunkSize :
              ret = FreshLarge([lf EXCEPT !.use_chunked = ch, !.chunk_size = sz], disk)
        /\ \A i, j \in DOMAIN DepositsHeld :
              i < j => DepositsHeld[i].idx < DepositsHeld[j].idx
        /\ \A i, j \in DOMAIN TransactionsHeld :
              i < j => TransactionsHeld[i].idx < TransactionsHeld[j].idx

\* C24: in every returned record agents_with_tellers is the number of the
\* distinct Parent User Identifier values present among the deposit rows of
\* the target year, whether or not the roster has an entity of that
\* identifier; a parent named by several rows counts once and a row without
\* a parent adds nothing.
C24_DistinctParentsInYear ==
    Computed =>
        ret.rec.agents_with_tellers =
            Cardinality({DepositsInYear[i].parent : i \in DOMAIN DepositsInYear} \ {NA})

\* C25: every record a calculate_all_metrics call returns, the defaults of an
\* analyzer without data, a record from the cache and a computed record
\* alike, has monthly_deposits and monthly_active_users with exactly the
\* keys 1..12 and a natural number under each.
C25_TwelveMonths ==
    ret.kind = "record" =>
        /\ DOMAIN ret.rec.monthly_deposits = 1..12
        /\ DOMAIN ret.rec.monthly_active_users = 1..12
        /\ \A m \in 1..12 :
              /\ ret.rec.monthly_deposits[m] \in Nat
              /\ ret.rec.monthly_active_users[m] \in Nat

\* A record computed from deposits that all fall in January: that month is
\* counted, and February is in the series with 0.
C25_OneMonthInData ==
    /\ Computed
    /\ ret.rec.monthly_deposits[1] > 0
    /\ ret.rec.monthly_deposits[2] = 0

\* The fields the records of the two analyzers share.
SharedFields ==
    {"total_active_agents", "total_active_tellers", "agents_with_tellers",
     "agents_without_tellers", "onboarded_total", "onboarded_agents",
     "onboarded_tellers", "active_users_overall", "inactive_users_overall",
     "monthly_active_users", "monthly_deposits", "transaction_volume",
     "successful_transactions", "failed_transactions", "top_performing_agents"}

\* What a new AgentPerformanceAnalyzerUltraFast with the configuration of the
\* LargeFileAnalyzer gives for the two files at its paths.
UltraFastOnDisk ==
    CalculateAllMetrics(
        LoadAndPreprocess(NewAnalyzer(lf.config), TRUE, disk.onb, TRUE, disk.tx))[1]

\* C26: whenever a LargeFileAnalyzer call on two files with all their columns
\* has returned a record, an AgentPerformanceAnalyzerUltraFast with the same
\* configuration returns, for the same two files, a record with the same
\* value in every field the two share.
C26_EnginesAgree ==
    (engine = "LargeFile" /\ calls > 0 /\ ret.kind = "record" /\ ~MissingColumn) =>
        /\ UltraFastOnDisk.kind = "record"
        /\ \A f \in SharedFields : UltraFastOnDisk.rec[f] = ret.rec[f]

\* C27: in every returned record and for every month, the users counted as
\* active in the month, each with min_deposits_for_active deposits at least,
\* account for no more deposits than the month has, and are no more than the
\* users active over the whole period.
C27_MonthlyWithinOverall ==
    (calls > 0 /\ ret.kind = "record") =>
        \A m \in 1..12 :
            /\ ret.rec.monthly_active_users[m] * Threshold <= ret.rec.monthly_deposits[m]
            /\ ret.rec.monthly_active_users[m] <= ret.rec.active_users_overall

\* A record with a threshold of two for a month in which one user reaches
\* it.
C27_UserReachesThresholdInMonth ==
    /\ Computed /\ Threshold = 2
    /\ \E m \in 1..12 : ret.rec.monthly_active_users[m] >= 1

\* C29: after a LargeFileAnalyzer call that returned a record, the values it
\* passed to progress_callback (in thousandths) begin with 0, end with 1.0,
\* never decrease from one call to the next, and all lie between 0 and 1.
C29_ProgressOrdered ==
    (engine = "LargeFile" /\ calls > 0 /\ ret.kind = "record") =>
        /\ Len(progress) > 0
        /\ progress[1] = 0
        /\ progress[Len(progress)] = 1000
        /\ \A i \in 1..(Len(progress) - 1) : progress[i] <= progress[i + 1]
        /\ \A i \in DOMAIN progress : progress[i] \in 0..1000

\* C30: a cleanup step leaves the LargeFileAnalyzer without an onboarding
\* table, without transaction and deposit chunks and without a cached
\* result, so that _calculate_metrics on it gives the default record of the
\* configured year with every figure zero; the configuration, the chunking
\* and the files at the two paths are as before.
C30_CleanupResets ==
    [][Cleanup =>
          /\ lf'.onboarding_df.isNone
          /\ lf'.transaction_chunks = <<>>
          /\ lf'.deposit_chunks = <<>>
          /\ lf'.results_cache = "None"
          /\ LargeCalculateMetrics(lf') = LargeDefaultResults(lf.config.year)
          /\ OnboardingFiguresZero(LargeCalculateMetrics(lf'))
          /\ TransactionFiguresZero(LargeCalculateMetrics(lf'))
          /\ lf'.config = lf.config
          /\ lf'.use_chunked = lf.use_chunked /\ lf'.chunk_size = lf.chunk_size
          /\ disk' = disk]_vars

\* A cleanup of an analyzer that held deposits, after a call that counted
\* them.
C30_CleanedAfterRun ==
    /\ engine = "LargeFile" /\ lastData = "cleanup"
    /\ ret.kind = "record" /\ ret.rec.active_users_overall > 0
    /\ lf.deposit_chunks = <<>> /\ lf.onboarding_df.isNone

\* C28: in every state of a dashboard session in which data_loaded is true,
\* metrics is a record and analyzer is an analyzer, and no page that reads
\* the analyzer under the data_loaded guard has ended in AttributeError.
C28_LoadedImpliesAnalyzer ==
    /\ session.data_loaded => ~session.metrics.isNone /\ ~session.analyzer.isNone
    /\ page # "AttributeError"

=============================================================================
